---- MODULE Spec2Model ----
(***************************************************************************)
(* A model of the stack orchestration code of docker-pyo3.                 *)
(*                                                                         *)
(*   SpecDef    src/src/stack/definition.rs (StackDefinition) and the      *)
(*              add_service method of src/src/stack/stack.rs.              *)
(*   SpecStack  src/src/stack/mod.rs (the registration-based Stack) with   *)
(*              a Runtime Client whose calls succeed or fail freely.       *)
(*   SpecStackStatus  SpecStack with the status() read added.              *)
(*   SpecService  src/src/stack/service_simple.rs: the image and build      *)
(*              setters of a Service.                                      *)
(*   SpecDefStack  src/src/stack/stack.rs (the definition-based Stack):    *)
(*              add_service, scale, up and down over a StackDefinition.    *)
(*   SpecImpl   src/src/stack/stack_impl.rs: up and its round-based        *)
(*              deploy_services over the registry of mod.rs.               *)
(***************************************************************************)
EXTENDS Integers, Sequences, FiniteSets, TLC

VARIABLES
    services,             \* definition.rs: compose.services, an IndexMap (ordered)
    deployment_order,     \* definition.rs: runtime_config.deployment_order
    scale_policies,       \* definition.rs: runtime_config.scale_policies (replicas)
    internal,             \* mod.rs: Service.internal, the Service under construction
    registered_services,  \* mod.rs: Pyo3Stack.registered_services
    containers,           \* mod.rs: StackState.containers
    networks,             \* mod.rs: StackState.networks
    status,               \* mod.rs: StackState.status
    next_id,              \* the Runtime Client's next fresh container ID
    calls,                \* the Runtime Client calls of the last operation, in order
    last                  \* the last operation and what it returned

defVars == <<services, deployment_order, scale_policies, internal>>

stackVars == <<registered_services, containers, networks, status, next_id, calls>>

vars == <<services, deployment_order, scale_policies, internal, registered_services, containers, networks,
          status, next_id, calls, last>>

(***************************************************************************)
(* Bounds                                                                  *)
(***************************************************************************)

\* The most depends_on entries a definition holds, over all its services.
MaxEdges == 2

\* The container IDs the Runtime Client hands out: 1..MaxIds, never reused.
MaxIds == 2

\* The largest replica count given to Service.replicas and to Stack.scale.
MaxReplicas == 2

\* The most depends_on entries of a service of the definition-based Stack.
MaxStackDeps == 1

\* The most cache_from entries of a build configuration.
MaxCacheFrom == 1

\* Service names of the definition model.
DefNames == {"db", "web", "api"}

\* The depends_on lists: Vec<String>, so order and duplicates are kept.
DepLists == UNION {[1..n -> DefNames] : n \in 0..MaxEdges}

(***************************************************************************)
(* Helpers on sequences                                                    *)
(***************************************************************************)

Range(s) == {s[i] : i \in 1..Len(s)}

\* All orders in which the elements of a set can be listed.
Perms(S) == {p \in [1..Cardinality(S) -> S] : \A i, j \in 1..Cardinality(S) : p[i] = p[j] => i = j}

\* The index of the first occurrence of x in s, 0 when there is none.
IndexOf(s, x) ==
    LET at == {i \in 1..Len(s) : s[i] = x}
    IN IF at = {} THEN 0 ELSE CHOOSE i \in at : \A j \in at : i <= j

(***************************************************************************)
(* StackDefinition (definition.rs)                                         *)
(***************************************************************************)

\* get_service_names: the keys of the IndexMap, in its order.
get_service_names(svcs) == [i \in 1..Len(svcs) |-> svcs[i].name]

\* get_service: the depends_on of the service called name.
get_service(svcs, name) == svcs[CHOOSE i \in 1..Len(svcs) : svcs[i].name = name]

\* IndexMap::insert: an existing key keeps its place, a new key goes last.
set_service(svcs, name, deps) ==
    LET i == IndexOf(get_service_names(svcs), name)
        entry == [name |-> name, depends_on |-> deps]
    IN IF i = 0 THEN Append(svcs, entry) ELSE [svcs EXCEPT ![i] = entry]

\* IndexMap::remove is swap_remove: the last entry takes the removed one's place.
remove_service(svcs, name) ==
    LET i == IndexOf(get_service_names(svcs), name)
        n == Len(svcs)
    IN IF i = 0 THEN svcs
       ELSE [k \in 1..(n-1) |-> IF k = i THEN svcs[n] ELSE svcs[k]]

\* The depends_on entries in the order the extraction loop meets them:
\* services in IndexMap order, each service's list in its own order.
RECURSIVE DepEdges(_, _)
DepEdges(svcs, i) ==
    IF i > Len(svcs) THEN <<>>
    ELSE [j \in 1..Len(svcs[i].depends_on) |-> <<svcs[i].name, svcs[i].depends_on[j]>>]
         \o DepEdges(svcs, i + 1)

\* The first entry of e whose dependency is not among names, 0 when all are.
FirstUndefined(e, names) ==
    LET bad == {k \in 1..Len(e) : e[k][2] \notin names}
    IN IF bad = {} THEN 0 ELSE CHOOSE k \in bad : \A m \in bad : k <= m

\* dependents[dep]: the services that list dep, one entry per listing, in the
\* order the extraction loop pushed them.
RECURSIVE dependents(_, _)
dependents(e, dep) ==
    IF e = <<>> THEN <<>>
    ELSE (IF Head(e)[2] = dep THEN <<Head(e)[1]>> ELSE <<>>) \o dependents(Tail(e), dep)

\* ReleaseDependents with the zero test lost: a dependent is enqueued as soon
\* as one of its dependencies is dequeued.
RECURSIVE ReleaseDependentsEager(_, _, _)
ReleaseDependentsEager(ds, deg, queue) ==
    IF ds = <<>> THEN [deg |-> deg, queue |-> queue]
    ELSE LET d == Head(ds)
         IN ReleaseDependentsEager(Tail(ds), [deg EXCEPT ![d] = deg[d] - 1], Append(queue, d))

\* A queue that takes its new element at the front, as a stack does.
push_front(queue, name) == <<name>> \o queue

\* VecDeque::push_back
push_back(queue, name) == Append(queue, name)

\* The inner for loop of Kahn's algorithm: decrement each dependent and
\* enqueue it when it reaches zero. Returns the new degrees and queue.
RECURSIVE ReleaseDependents(_, _, _)
ReleaseDependents(ds, deg, queue) ==
    IF ds = <<>> THEN [deg |-> deg, queue |-> queue]
    ELSE LET d == Head(ds)
             new_degree == deg[d] - 1
         IN ReleaseDependents(Tail(ds), [deg EXCEPT ![d] = new_degree],
                              IF new_degree = 0 THEN push_back(queue, d) ELSE queue)

\* The while loop of Kahn's algorithm; deg maps a service name to its degree.
RECURSIVE KahnLoop(_, _, _, _)
KahnLoop(e, deg, queue, result) ==
    IF queue = <<>> THEN result
    ELSE LET service == Head(queue)
             r == ReleaseDependents(dependents(e, service), deg, Tail(queue))
         IN KahnLoop(e, r.deg, r.queue, Append(result, service))

\* The queue is seeded by iterating a HashMap, whose order is arbitrary and
\* differs from one HashMap to the next: every order of the zero-degree
\* services is possible.
SeedQueues(svcs) == Perms({svcs[i].name : i \in {k \in 1..Len(svcs) : svcs[k].depends_on = <<>>}})

NoError == [kind |-> "none", msg |-> "", referrer |-> "", missing |-> ""]

\* UndefinedError with the two names given in the wrong order.
UndefinedErrorSwapped(referrer, missing) ==
    [kind |-> "Configuration", msg |-> "depends on which is not defined",
     referrer |-> missing, missing |-> referrer]

UndefinedError(referrer, missing) ==
    [kind |-> "Configuration", msg |-> "depends on which is not defined",
     referrer |-> referrer, missing |-> missing]

CircularError ==
    [kind |-> "Configuration", msg |-> "Circular dependency detected in services",
     referrer |-> "", missing |-> ""]

\* SortComplete with the check left out: any result passes.
SortCompleteUnchecked(result, svcs) == TRUE

\* SortComplete comparing the wrong way: a short result passes.
SortCompleteLax(result, svcs) == Len(result) <= Len(svcs)

\* Whether the sort covered every service (the check after the loop).
SortComplete(result, svcs) == Len(result) = Len(svcs)

\* build_deployment_order with the queue seeded as seed: the error returned
\* and the deployment_order afterwards.
build_deployment_order(svcs, order, seed) ==
    IF Len(svcs) = 0 THEN [err |-> NoError, order |-> order]
    ELSE LET e == DepEdges(svcs, 1)
             names == {svcs[i].name : i \in 1..Len(svcs)}
             u == FirstUndefined(e, names)
         IN IF u # 0
            THEN [err |-> UndefinedError(e[u][1], e[u][2]), order |-> order]
            ELSE LET deg == [n \in names |-> Len(get_service(svcs, n).depends_on)]
                     result == KahnLoop(e, deg, seed, <<>>)
                 IN IF ~SortComplete(result, svcs)
                    THEN [err |-> CircularError, order |-> order]
                    ELSE [err |-> NoError, order |-> result]

Result(op, err) == [op |-> op, ok |-> err.kind = "none", err |-> err]

\* The number of depends_on entries of a definition.
RECURSIVE EdgeCount(_)
EdgeCount(svcs) == IF svcs = <<>> THEN 0 ELSE Len(Head(svcs).depends_on) + EdgeCount(Tail(svcs))

(***************************************************************************)
(* Service (service_simple.rs): image and build                            *)
(*                                                                         *)
(* An Option is a sequence: <<>> for None, <<x>> for Some(x).              *)
(***************************************************************************)

Images == {"nginx", "redis"}

Contexts == {".", "app"}

\* BuildConfig::new
BuildConfig_new(context) ==
    [context |-> context, dockerfile |-> <<>>, args |-> {}, target |-> <<>>, cache_from |-> <<>>]

\* Service::new: no image, no build, one replica.
NewService == [image |-> <<>>, build |-> <<>>, replicas |-> 1]

\* An image setter that leaves the build configuration in place.
Service_imageKeepingBuild(svc, img) == [svc EXCEPT !.image = <<img>>]

\* Service::image
Service_image(svc, img) == [svc EXCEPT !.image = <<img>>, !.build = <<>>]

\* Service::build_context
Service_build_context(svc, context) == [svc EXCEPT !.build = <<BuildConfig_new(context)>>, !.image = <<>>]

\* Service::build_with_dockerfile
Service_build_with_dockerfile(svc, context, dockerfile) ==
    [svc EXCEPT !.build = <<[BuildConfig_new(context) EXCEPT !.dockerfile = <<dockerfile>>]>>,
                !.image = <<>>]

\* HashMap::insert on the build arguments, a set of <<key, value>> pairs.
InsertArg(args, key, value) == {a \in args : a[1] # key} \cup {<<key, value>>}

\* Service::build_arg
Service_build_arg(svc, key, value) ==
    IF svc.build # <<>>
    THEN [svc EXCEPT !.build[1].args = InsertArg(@, key, value)]
    ELSE [svc EXCEPT !.build = <<[BuildConfig_new(".") EXCEPT !.args = {<<key, value>>}]>>]

\* Service::build_target
Service_build_target(svc, target) ==
    IF svc.build # <<>>
    THEN [svc EXCEPT !.build[1].target = <<target>>]
    ELSE [svc EXCEPT !.build = <<[BuildConfig_new(".") EXCEPT !.target = <<target>>]>>]

\* Service::build_cache_from
Service_build_cache_from(svc, img) ==
    IF svc.build # <<>>
    THEN [svc EXCEPT !.build[1].cache_from = Append(@, img)]
    ELSE [svc EXCEPT !.build = <<[BuildConfig_new(".") EXCEPT !.cache_from = <<img>>]>>]

\* Service::replicas, standing for the setters that touch neither field.
Service_replicas(svc, count) == [svc EXCEPT !.replicas = count]

StackIdle ==
    /\ registered_services = <<>>
    /\ containers = <<>>
    /\ networks = <<>>
    /\ status = "NotDeployed"
    /\ next_id = 1
    /\ calls = <<>>

\* StackDefinition::new
InitDef ==
    /\ services = <<>>
    /\ deployment_order = <<>>
    /\ scale_policies = <<>>
    /\ internal = NewService
    /\ last = Result("new", NoError)
    /\ StackIdle

\* StackDefinition::set_service, called on its own.
SetService ==
    \E name \in DefNames, deps \in DepLists :
        /\ EdgeCount(set_service(services, name, deps)) <= MaxEdges
        /\ services' = set_service(services, name, deps)
        /\ last' = Result("set_service", NoError)
        /\ UNCHANGED <<deployment_order, scale_policies, internal, stackVars>>

\* StackDefinition::remove_service.
RemoveService ==
    \E name \in DefNames :
        /\ services' = remove_service(services, name)
        /\ last' = Result("remove_service", NoError)
        /\ UNCHANGED <<deployment_order, scale_policies, internal, stackVars>>

\* StackDefinition::build_deployment_order.
BuildDeploymentOrder ==
    \E seed \in SeedQueues(services) :
        LET r == build_deployment_order(services, deployment_order, seed) IN
        /\ deployment_order' = r.order
        /\ last' = Result("build_deployment_order", r.err)
        /\ UNCHANGED <<services, scale_policies, internal, stackVars>>

\* Pyo3Stack::add_service (stack.rs): set_service, then build_deployment_order.
AddService ==
    \E name \in DefNames, deps \in DepLists :
        LET svcs == set_service(services, name, deps) IN
        /\ EdgeCount(svcs) <= MaxEdges
        /\ \E seed \in SeedQueues(svcs) :
            LET r == build_deployment_order(svcs, deployment_order, seed) IN
            /\ services' = svcs
            /\ deployment_order' = r.order
            /\ last' = Result("add_service", r.err)
            /\ UNCHANGED <<scale_policies, internal, stackVars>>

NextDef == SetService \/ RemoveService \/ BuildDeploymentOrder \/ AddService

SpecDef == InitDef /\ [][NextDef]_vars

(***************************************************************************)
(* Properties of the deployment order (SpecDef)                            *)
(***************************************************************************)

\* The names of the defined services.
Defined(svcs) == {svcs[i].name : i \in 1..Len(svcs)}

\* The depends_on relation: <<a, b>> when a lists b.
DependsOn(svcs) ==
    UNION {{<<svcs[i].name, svcs[i].depends_on[j]>> : j \in 1..Len(svcs[i].depends_on)} : i \in 1..Len(svcs)}

\* Every referenced name is a defined service.
Closed(svcs) == \A e \in DependsOn(svcs) : e[2] \in Defined(svcs)

RECURSIVE TransitiveClosure(_)
TransitiveClosure(R) ==
    LET step == R \cup {<<p[1][1], p[2][2]>> : p \in {q \in R \X R : q[1][2] = q[2][1]}}
    IN IF step = R THEN R ELSE TransitiveClosure(step)

\* Some service reaches itself along depends_on (a self-dependency included).
HasCycle(svcs) == \E e \in TransitiveClosure(DependsOn(svcs)) : e[1] = e[2]

\* b comes before a in order, both being in it.
Before(order, b, a) == IndexOf(order, b) > 0 /\ IndexOf(order, a) > 0 /\ IndexOf(order, b) < IndexOf(order, a)

\* order lists exactly the defined services, once each, dependencies first.
IsTopologicalOrder(order, svcs) ==
    /\ Range(order) = Defined(svcs)
    /\ Len(order) = Len(svcs)
    /\ \A e \in DependsOn(svcs) : Before(order, e[2], e[1])

\* The operations that run build_deployment_order.
BuildOps == {"build_deployment_order", "add_service"}

\* C1: on an acyclic depends_on graph whose referenced names are all defined,
\* build_deployment_order succeeds and the stored deployment_order has every
\* dependency before the service that depends on it.
C1_TopologicalOrder ==
    (last.op \in BuildOps /\ Closed(services) /\ ~HasCycle(services)) =>
        /\ last.ok
        /\ \A e \in DependsOn(services) : Before(deployment_order, e[2], e[1])

C1_Witness ==
    /\ last.op = "build_deployment_order"
    /\ last.ok
    /\ Len(services) = 3
    /\ Cardinality(DependsOn(services)) = 2
    /\ ~HasCycle(services)
    /\ IsTopologicalOrder(deployment_order, services)

\* C2 as stated: on a graph with a cycle, build_deployment_order fails with
\* the circular-dependency Configuration error and deployment_order keeps
\* the value it had before the call.
C2_CycleReportsCircular ==
    [][(last'.op \in BuildOps /\ HasCycle(services')) =>
            /\ ~last'.ok
            /\ last'.err = CircularError
            /\ deployment_order' = deployment_order]_vars

\* C2 as amended: on a graph with a cycle, build_deployment_order fails with a
\* Configuration error and deployment_order keeps its value; the error is the
\* circular-dependency one when every referenced name is defined, and the
\* undefined-reference one otherwise (the references are validated first).
C2_CycleRejected ==
    [][(last'.op \in BuildOps /\ HasCycle(services')) =>
            /\ ~last'.ok
            /\ last'.err.kind = "Configuration"
            /\ (Closed(services') => last'.err = CircularError)
            /\ (~Closed(services') => last'.err.missing \notin Defined(services'))
            /\ deployment_order' = deployment_order]_vars

C2_Witness ==
    /\ last.op = "build_deployment_order"
    /\ HasCycle(services)
    /\ Closed(services)
    /\ last.err = CircularError
    /\ deployment_order # <<>>

\* C3: when a depends_on names an undefined service, build_deployment_order
\* fails with a Configuration error naming the missing service and the
\* service that refers to it, and deployment_order is unchanged.
C3_UndefinedRejected ==
    [][(last'.op \in BuildOps /\ ~Closed(services')) =>
            /\ ~last'.ok
            /\ last'.err.kind = "Configuration"
            /\ last'.err.missing \notin Defined(services')
            /\ <<last'.err.referrer, last'.err.missing>> \in DependsOn(services')
            /\ deployment_order' = deployment_order]_vars

C3_Witness ==
    /\ last.op = "build_deployment_order"
    /\ ~Closed(services)
    /\ ~last.ok
    /\ last.err.missing \notin Defined(services)
    /\ deployment_order # <<>>

\* C4: build_deployment_order run again on an unchanged definition, right
\* after a successful run, yields the same sequence.
C4_Idempotent ==
    [][(last.op \in BuildOps /\ last.ok /\ last'.op = "build_deployment_order" /\ last'.ok) =>
            deployment_order' = deployment_order]_vars

\* C5: a failed add_service leaves the set of defined services and
\* deployment_order as they were before the call.
C5_FailedAddRejected ==
    [][(last'.op = "add_service" /\ ~last'.ok) =>
            /\ Defined(services') = Defined(services)
            /\ deployment_order' = deployment_order]_vars

\* C6: a structural mutation (add_service, which is set_service with its
\* recomputation, or remove_service) that changes the services of a definition
\* whose deployment_order was a topological order of them, and that leaves a
\* valid graph, leaves deployment_order a topological order of exactly the
\* services now defined.
C6_OrderTracksServices ==
    [][(/\ last'.op \in {"remove_service", "add_service"}
        /\ services' # services
        /\ IsTopologicalOrder(deployment_order, services)
        /\ Closed(services')
        /\ ~HasCycle(services')) => IsTopologicalOrder(deployment_order', services')]_vars

(***************************************************************************)
(* The registration-based Stack (mod.rs)                                   *)
(***************************************************************************)

\* Service names of the stack model.
StackNames == {"db", "web"}

\* The services given to register_service: what up, scale and status read of
\* service_simple.rs' Service. image is whether Service.image is Some (a
\* build-only service has none); depends_on is kept as a set, mod.rs never
\* reads its order.
ServiceDefs ==
    {sv \in [name : StackNames, image : BOOLEAN, depends_on : SUBSET StackNames, replicas : 1..MaxReplicas] :
        sv.name \notin sv.depends_on}

\* HashMap::insert / entry().or_insert: the map f with key k set to v.
Put(f, k, v) == [x \in (DOMAIN f) \cup {k} |-> IF x = k THEN v ELSE f[x]]

\* HashMap::remove: the map f without key k.
Drop(f, k) == [x \in (DOMAIN f) \ {k} |-> f[x]]

\* The list tracked for a service, empty when it has no entry.
TrackedIds(ctrs, name) == IF name \in DOMAIN ctrs THEN ctrs[name] ELSE <<>>

\* A count that forgets the containers tracked.
TrackedCountZero(ctrs, name) == 0

\* containers.get(name).map(|v| v.len()).unwrap_or(0)
TrackedCount(ctrs, name) == IF name \in DOMAIN ctrs THEN Len(ctrs[name]) ELSE 0

\* A push that rebuilds the map with the one entry it writes.
PushAlone(ctrs, name, id) == [x \in {name} |-> IF name \in DOMAIN ctrs THEN Append(ctrs[name], id) ELSE <<id>>]

\* containers.entry(name).or_insert_with(Vec::new).push(id)
Push(ctrs, name, id) == Put(ctrs, name, IF name \in DOMAIN ctrs THEN Append(ctrs[name], id) ELSE <<id>>)

\* One Runtime Client call, as logged: the call, the service it is for (create
\* and start), the container ID given or returned (0: none).
Call(call, svc, id) == [call |-> call, svc |-> svc, id |-> id]

\* The create call for the container {stack}_{svc}_{replica}.
CreateCall(svc, replica, id) == [call |-> "create", svc |-> svc, id |-> id, replica |-> replica]

StackResult(op, svc, n, err, failed) ==
    [op |-> op, svc |-> svc, n |-> n, ok |-> err = "none", err |-> err, failed |-> failed]

\* Pyo3Stack::new
InitStack ==
    /\ registered_services = <<>>
    /\ containers = <<>>
    /\ networks = <<>>
    /\ status = "NotDeployed"
    /\ next_id = 1
    /\ calls = <<>>
    /\ last = StackResult("new", "", 0, "none", {})
    /\ services = <<>>
    /\ deployment_order = <<>>
    /\ scale_policies = <<>>
    /\ internal = NewService

\* A register_service that replaces the definition of a registered name.
register_serviceOverwriting(reg, sv) == [registered |-> Put(reg, sv.name, sv), err |-> "none"]

\* register_service: the registry it leaves and the error it returns.
register_service(reg, sv) ==
    IF sv.name \in DOMAIN reg
    THEN [registered |-> reg, err |-> "ValueError"]
    ELSE [registered |-> Put(reg, sv.name, sv), err |-> "none"]

\* register_service: a duplicate name is refused, the registry untouched.
RegisterService ==
    \E sv \in ServiceDefs :
        /\ registered_services' = register_service(registered_services, sv).registered
        /\ last' = StackResult("register_service", sv.name, 0, register_service(registered_services, sv).err, {})
        /\ calls' = <<>>
        /\ UNCHANGED <<containers, networks, status, next_id, defVars>>

\* unregister_service: the runtime state is not touched.
UnregisterService ==
    \E name \in StackNames :
        /\ registered_services' = Drop(registered_services, name)
        /\ last' = StackResult("unregister_service", name, 0, "none", {})
        /\ calls' = <<>>
        /\ UNCHANGED <<containers, networks, status, next_id, defVars>>

\* The for loop of up over the registered services, taken in the order the
\* HashMap yields them. fail is the position, in the calls of this up, of the
\* call that fails (0: none does); the loop returns at the first failure.
RECURSIVE DeployLoop(_, _, _, _, _, _)
DeployLoop(order, reg, ctrs, nid, log, fail) ==
    IF order = <<>>
    THEN [containers |-> ctrs, next_id |-> nid, calls |-> log, err |-> "none", failed |-> {}]
    ELSE LET s == Head(order) IN
         IF ~reg[s].image
         THEN DeployLoop(Tail(order), reg, ctrs, nid, log, fail)
         ELSE IF fail = Len(log) + 1
         THEN [containers |-> ctrs, next_id |-> nid, calls |-> Append(log, CreateCall(s, 1, 0)),
               err |-> "RuntimeError", failed |-> {"create"}]
         ELSE IF fail = Len(log) + 2
         THEN [containers |-> ctrs, next_id |-> nid + 1,
               calls |-> log \o <<CreateCall(s, 1, nid), Call("start", s, nid)>>,
               err |-> "RuntimeError", failed |-> {"start"}]
         ELSE DeployLoop(Tail(order), reg, Push(ctrs, s, nid), nid + 1,
                         log \o <<CreateCall(s, 1, nid), Call("start", s, nid)>>, fail)

\* The status up leaves when it returns: Running on success; an error return
\* happens before the assignment and leaves the status as it was.
StatusAfterUp(st, err) == IF err = "none" THEN "Running" ELSE st

\* The status while up makes its Runtime Client calls: up assigns nothing to
\* it before the loop ends, so it is the status up was called in.
StatusDuringUp(st) == st

\* The services with an image: those up and scale create containers for.
WithImage(reg) == {n \in DOMAIN reg : reg[n].image}

\* An up that gives up on every failure to create the network.
NetworkFatalAlways(net) == net # "created"

\* The match on the outcome of creating the default network: an error whose
\* text does not contain "already exists" makes up return it.
NetworkFatal(net) == net = "error"

\* What is stored for the default network: the ID of the created network, or
\* the network's name when it existed already.
NetworkId(net) == IF net = "created" THEN "network id" ELSE "network name"

\* The failure of the network create call, as recorded in the result.
NetFailures(net) ==
    IF net = "created" THEN {}
    ELSE IF net = "already exists" THEN {"network_already_exists"} ELSE {"network_create"}

\* up. net is the outcome of creating the default network.
Up ==
    /\ next_id + Cardinality(WithImage(registered_services)) - 1 <= MaxIds
    /\ \E net \in {"created", "already exists", "error"} :
        LET log == <<Call("network_create", "", 0)>> IN
        IF NetworkFatal(net)
        THEN /\ calls' = log
             /\ last' = StackResult("up", "", 0, "RuntimeError", NetFailures(net))
             /\ UNCHANGED <<registered_services, containers, networks, status, next_id, defVars>>
        ELSE \E order \in Perms(DOMAIN registered_services),
                fail \in {0} \cup (2..(1 + 2 * Cardinality(WithImage(registered_services)))) :
                LET r == DeployLoop(order, registered_services, containers, next_id, log, fail) IN
                /\ networks' = Put(networks, "default", NetworkId(net))
                /\ containers' = r.containers
                /\ next_id' = r.next_id
                /\ calls' = r.calls
                /\ status' = StatusAfterUp(StatusDuringUp(status), r.err)
                /\ last' = StackResult("up", "", 0, r.err, r.failed \cup NetFailures(net))
                /\ UNCHANGED <<registered_services, defVars>>

\* A teardown that stops the containers and removes none.
RECURSIVE StopOnly(_)
StopOnly(ids) ==
    IF ids = <<>> THEN <<>> ELSE <<Call("stop", "", Head(ids))>> \o StopOnly(Tail(ids))

\* The stop and remove calls for a list of container IDs, in order.
RECURSIVE StopRemove(_)
StopRemove(ids) ==
    IF ids = <<>> THEN <<>>
    ELSE <<Call("stop", "", Head(ids)), Call("remove", "", Head(ids))>> \o StopRemove(Tail(ids))

\* The container loop of down over state.containers in HashMap order.
RECURSIVE TeardownCalls(_, _)
TeardownCalls(order, ctrs) ==
    IF order = <<>> THEN <<>>
    ELSE StopRemove(ctrs[Head(order)]) \o TeardownCalls(Tail(order), ctrs)

\* The network calls of down: one delete per stored ID, then one by name.
NetworkDeletes(nets) ==
    (IF "default" \in DOMAIN nets THEN <<Call("network_delete", nets["default"], 0)>> ELSE <<>>)
    \o <<Call("network_delete", "network name", 0)>>

\* The kinds of call in a log.
Kinds(log) == {log[i].call : i \in 1..Len(log)}

\* A down that propagates a failed call instead of dropping it.
downPropagating(ctrs, nets, st, failed) ==
    IF failed = {}
    THEN [containers |-> <<>>, networks |-> <<>>, status |-> "NotDeployed", err |-> "none"]
    ELSE [containers |-> ctrs, networks |-> nets, status |-> st, err |-> "RuntimeError"]

\* down with some calls failing: every result is dropped (let _ =), the
\* state is cleared and Ok returned whatever failed.
down(ctrs, nets, st, failed) ==
    [containers |-> <<>>, networks |-> <<>>, status |-> "NotDeployed", err |-> "none"]

\* down. failed is the kinds of call of which at least one fails.
Down ==
    \E order \in Perms(DOMAIN containers) :
        LET log == TeardownCalls(order, containers) \o NetworkDeletes(networks) IN
        \E failed \in SUBSET Kinds(log) :
            LET r == down(containers, networks, status, failed) IN
            /\ containers' = r.containers
            /\ networks' = r.networks
            /\ status' = r.status
            /\ calls' = log
            /\ last' = StackResult("down", "", 0, r.err, failed)
            /\ UNCHANGED <<registered_services, next_id, defVars>>

\* A create_service_container that tracks the container before starting it.
StartFailedTracking(ctrs, s, id) == Push(ctrs, s, id)

\* create_service_container when start fails: `container.start()?` returns
\* before the push, so the container that was created is not tracked.
StartFailed(ctrs, s, id) == ctrs

\* The scale-up loop: create_service_container for replica k, k+1, .. target,
\* returning at the first create or start that fails.
RECURSIVE ScaleUpLoop(_, _, _, _, _, _, _)
ScaleUpLoop(s, k, target, ctrs, nid, log, fail) ==
    IF k > target
    THEN [containers |-> ctrs, next_id |-> nid, calls |-> log, err |-> "none", failed |-> {}]
    ELSE IF fail = Len(log) + 1
    THEN [containers |-> ctrs, next_id |-> nid, calls |-> Append(log, CreateCall(s, k, 0)),
          err |-> "RuntimeError", failed |-> {"create"}]
    ELSE IF fail = Len(log) + 2
    THEN [containers |-> StartFailed(ctrs, s, nid), next_id |-> nid + 1,
          calls |-> log \o <<CreateCall(s, k, nid), Call("start", s, nid)>>,
          err |-> "RuntimeError", failed |-> {"start"}]
    ELSE ScaleUpLoop(s, k + 1, target, Push(ctrs, s, nid), nid + 1,
                     log \o <<CreateCall(s, k, nid), Call("start", s, nid)>>, fail)

\* The replica number of the i-th container a scale-up adds (i from 0).
replica_numRestarting(current, i) == i + 1

replica_num(current, i) == current + i + 1

\* A scale-down that takes the containers from the front of the list.
PoppedFromFront(ids, n) == [i \in 1..n |-> ids[i]]

\* The IDs popped by the scale-down loop, last one first.
Popped(ids, n) == [i \in 1..n |-> ids[Len(ids) + 1 - i]]

\* scale.
Scale ==
    \E s \in StackNames, replicas \in 0..MaxReplicas :
        LET current == TrackedCount(containers, s) IN
        IF s \notin DOMAIN registered_services
        THEN /\ last' = StackResult("scale", s, replicas, "ValueError", {})
             /\ calls' = <<>>
             /\ UNCHANGED <<registered_services, containers, networks, status, next_id, defVars>>
        ELSE IF replicas = current
        THEN /\ last' = StackResult("scale", s, replicas, "none", {})
             /\ calls' = <<>>
             /\ UNCHANGED <<registered_services, containers, networks, status, next_id, defVars>>
        ELSE IF replicas > current
        THEN IF ~registered_services[s].image
             THEN /\ last' = StackResult("scale", s, replicas, "ValueError", {})
                  /\ calls' = <<>>
                  /\ UNCHANGED <<registered_services, containers, networks, status, next_id, defVars>>
             ELSE /\ next_id + (replicas - current) - 1 <= MaxIds
                  /\ \E fail \in 0..(2 * (replicas - current)) :
                        LET r == ScaleUpLoop(s, replica_num(current, 0), replicas, containers, next_id, <<>>, fail) IN
                        /\ containers' = r.containers
                        /\ next_id' = r.next_id
                        /\ calls' = r.calls
                        /\ last' = StackResult("scale", s, replicas, r.err, r.failed)
                        /\ UNCHANGED <<registered_services, networks, status, defVars>>
        ELSE LET log == StopRemove(Popped(containers[s], current - replicas)) IN
             \E failed \in SUBSET Kinds(log) :
                /\ containers' = [containers EXCEPT ![s] = SubSeq(containers[s], 1, replicas)]
                /\ calls' = log
                /\ last' = StackResult("scale", s, replicas, "none", failed)
                /\ UNCHANGED <<registered_services, networks, status, next_id, defVars>>

\* A restart_service that does not look the name up.
restart_serviceUnchecked(reg, name) == "none"

\* The result of restart_service: an error for a name that is not registered.
restart_service(reg, name) == IF name \in DOMAIN reg THEN "none" ELSE "ValueError"

\* restart_service: checks the name and does nothing else.
RestartService ==
    \E s \in StackNames :
        /\ last' = StackResult("restart_service", s, 0, restart_service(registered_services, s), {})
        /\ calls' = <<>>
        /\ UNCHANGED <<registered_services, containers, networks, status, next_id, defVars>>

\* What inspecting a container gives: an error, or the container's State
\* (Running, and Health.Status; "none" when State has no Health).
InspectError == [ok |-> FALSE, running |-> FALSE, health |-> "none"]

InspectOutcomes ==
    {InspectError,
     [ok |-> TRUE, running |-> TRUE, health |-> "healthy"],
     [ok |-> TRUE, running |-> TRUE, health |-> "unhealthy"],
     [ok |-> TRUE, running |-> FALSE, health |-> "none"]}

\* An inspect call and what it returned.
InspectCall(svc, id, outcome) == [call |-> "inspect", svc |-> svc, id |-> id, outcome |-> outcome]

\* A status that reports a container whose inspect failed as it was last known.
container_statusStale(id, out) ==
    IF ~out.ok
    THEN [id |-> id, running |-> TRUE, status |-> "running", health |-> "unknown"]
    ELSE [id |-> id, running |-> out.running,
          status |-> IF out.running THEN "running" ELSE "exited",
          health |-> IF out.health = "none" THEN "no_healthcheck" ELSE out.health]

\* The entry status builds for one container from its inspect outcome.
container_status(id, out) ==
    IF ~out.ok
    THEN [id |-> id, running |-> FALSE, status |-> "not_found", health |-> "unknown"]
    ELSE [id |-> id, running |-> out.running,
          status |-> IF out.running THEN "running" ELSE "exited",
          health |-> IF out.health = "none" THEN "no_healthcheck" ELSE out.health]

\* The counters of status for one service: incremented in the Ok arm only.
CountWhere(ids, outs, running, healths) ==
    Cardinality({i \in 1..Len(ids) :
        /\ outs[ids[i]].ok
        /\ running => outs[ids[i]].running
        /\ healths # {} => outs[ids[i]].health \in healths})

\* The dict status builds for one registered service.
service_status(ctrs, name, outs) ==
    IF name \in DOMAIN ctrs
    THEN [replicas |-> Len(ctrs[name]),
          running |-> CountWhere(ctrs[name], outs, TRUE, {}),
          healthy |-> CountWhere(ctrs[name], outs, FALSE, {"healthy"}),
          unhealthy |-> CountWhere(ctrs[name], outs, FALSE, {"unhealthy"}),
          containers |-> [i \in 1..Len(ctrs[name]) |-> container_status(ctrs[name][i], outs[ctrs[name][i]])]]
    ELSE [replicas |-> 0, running |-> 0, healthy |-> 0, unhealthy |-> 0, containers |-> <<>>]

\* The inspect calls of status, the registered services in HashMap order.
RECURSIVE InspectCalls(_, _, _)
InspectCalls(order, ctrs, outs) ==
    IF order = <<>> THEN <<>>
    ELSE LET ids == TrackedIds(ctrs, Head(order)) IN
         [i \in 1..Len(ids) |-> InspectCall(Head(order), ids[i], outs[ids[i]])]
         \o InspectCalls(Tail(order), ctrs, outs)

\* Vec lengths summed over containers.values()
RECURSIVE TotalTracked(_, _)
TotalTracked(ctrs, names) ==
    IF names = {} THEN 0
    ELSE LET n == CHOOSE x \in names : TRUE IN Len(ctrs[n]) + TotalTracked(ctrs, names \ {n})

\* status: reads the state and inspects every tracked container of every
\* registered service; outs is what each inspect returns.
Status ==
    \E order \in Perms(DOMAIN registered_services) :
        LET ids == UNION {Range(TrackedIds(containers, n)) : n \in DOMAIN registered_services} IN
        \E outs \in [ids -> InspectOutcomes] :
            /\ calls' = InspectCalls(order, containers, outs)
            /\ last' = [op |-> "status", svc |-> "", n |-> 0, ok |-> TRUE, err |-> "none",
                        failed |-> IF \E id \in ids : ~outs[id].ok THEN {"inspect"} ELSE {},
                        result |-> [status |-> status,
                                    services |-> [name \in DOMAIN registered_services |->
                                                    service_status(containers, name, outs)],
                                    total_containers |-> TotalTracked(containers, DOMAIN containers),
                                    networks |-> Cardinality(DOMAIN networks)]]
            /\ UNCHANGED <<registered_services, containers, networks, status, next_id, defVars>>

NextStack == RegisterService \/ UnregisterService \/ Up \/ Down \/ Scale \/ RestartService

\* The Stack with status() among its operations.
NextStackStatus == NextStack \/ Status

SpecStackStatus == InitStack /\ [][NextStackStatus]_vars

SpecStack == InitStack /\ [][NextStack]_vars

(***************************************************************************)
(* Properties of the registration-based Stack                              *)
(***************************************************************************)

\* The depends_on relation of the registry: <<a, b>> when a lists b.
RegDependsOn(reg) == UNION {{<<a, b>> : b \in reg[a].depends_on} : a \in DOMAIN reg}

\* Every name a registered service depends on is registered.
RegClosed(reg) == \A e \in RegDependsOn(reg) : e[2] \in DOMAIN reg

\* Some registered service reaches itself along depends_on.
RegHasCycle(reg) == \E e \in TransitiveClosure(RegDependsOn(reg)) : e[1] = e[2]

\* The position in log of the first call of this kind for service svc (0: none).
CallPos(log, call, svc) ==
    LET at == {i \in 1..Len(log) : log[i].call = call /\ log[i].svc = svc}
    IN IF at = {} THEN 0 ELSE CHOOSE i \in at : \A j \in at : i <= j

\* The container IDs tracked, over all services.
Tracked(ctrs) == UNION {Range(ctrs[n]) : n \in DOMAIN ctrs}

\* C7: down returns success and leaves the runtime state at its default (no
\* tracked container, no tracked network, status NotDeployed), whichever of
\* its stop, remove and network-delete calls fail.
C7_DownAlwaysSucceeds ==
    last.op = "down" =>
        /\ last.ok
        /\ containers = <<>>
        /\ networks = <<>>
        /\ status = "NotDeployed"

C7_Witness ==
    /\ last.op = "down"
    /\ last.failed = {"stop", "remove", "network_delete"}
    /\ Cardinality({i \in 1..Len(calls) : calls[i].call = "stop"}) = 2
    /\ Len(calls) = 6
    /\ containers = <<>>
    /\ status = "NotDeployed"

\* C8: a successful up on an acyclic, closed registry creates and starts the
\* container of B before it creates the container of A, for every registered
\* A that lists B in depends_on.
C8_UpInDependencyOrder ==
    (last.op = "up" /\ last.ok /\ RegClosed(registered_services) /\ ~RegHasCycle(registered_services)) =>
        \A e \in RegDependsOn(registered_services) :
            (registered_services[e[1]].image /\ registered_services[e[2]].image) =>
                /\ CallPos(calls, "start", e[2]) > 0
                /\ CallPos(calls, "start", e[2]) < CallPos(calls, "create", e[1])

\* C9: when the registered services have a dependency cycle or depend on a
\* name that is not registered, up returns an error before it makes any
\* Runtime Client call, and leaves the runtime state as it was.
C9_UpValidatesFirst ==
    [][(last'.op = "up" /\ (RegHasCycle(registered_services) \/ ~RegClosed(registered_services))) =>
            /\ ~last'.ok
            /\ calls' = <<>>
            /\ containers' = containers
            /\ networks' = networks
            /\ status' = status]_vars

\* C10: when up returns an error the status is PartiallyRunning if a
\* container is tracked and Failed if none is.
C10_FailedUpStatus ==
    (last.op = "up" /\ ~last.ok) =>
        status = IF Tracked(containers) # {} THEN "PartiallyRunning" ELSE "Failed"

\* The IDs the Runtime Client returned for the create calls of a log.
Created(log) == {log[i].id : i \in {k \in 1..Len(log) : log[k].call = "create" /\ log[k].id # 0}}

\* C11: up on a NotDeployed stack that tracks nothing, whose services all have
\* an image and whose Runtime Client calls all succeed, returns success with
\* status Running and tracks, for every service, as many containers as the
\* service's replicas.
C11_UpTracksReplicas ==
    [][(/\ last'.op = "up"
        /\ last'.failed = {}
        /\ status = "NotDeployed"
        /\ containers = <<>>
        /\ WithImage(registered_services) = DOMAIN registered_services) =>
            /\ last'.ok
            /\ status' = "Running"
            /\ \A s \in DOMAIN registered_services :
                    TrackedCount(containers', s) = registered_services[s].replicas]_vars

\* C12: after up, successful or not, the tracked container IDs are those
\* tracked before together with exactly the containers created during the up.
C12_TrackedAreCreated ==
    [][last'.op = "up" => Tracked(containers') = Tracked(containers) \cup Created(calls')]_vars

\* The create calls of a log.
CreateCalls(log) == {i \in 1..Len(log) : log[i].call = "create"}

\* C13: when creating the default network fails with "already exists", up
\* carries on: it records an entry for the network "default" and deploys the
\* services (it succeeds unless a container call fails). When the creation
\* fails otherwise, up returns the error, makes no container call and leaves
\* containers, networks and status as they were.
C13_NetworkAlreadyExists ==
    [][/\ (last'.op = "up" /\ "network_already_exists" \in last'.failed) =>
            /\ "default" \in DOMAIN networks'
            /\ last'.ok \/ last'.failed \cap {"create", "start"} # {}
            /\ WithImage(registered_services) # {} => CreateCalls(calls') # {}
            /\ last'.ok => status' = "Running"
       /\ (last'.op = "up" /\ "network_create" \in last'.failed) =>
            /\ ~last'.ok
            /\ calls' = <<Call("network_create", "", 0)>>
            /\ containers' = containers
            /\ networks' = networks
            /\ status' = status]_vars

C13_Witness ==
    /\ last.op = "up"
    /\ last.ok
    /\ last.failed = {"network_already_exists"}
    /\ networks = [x \in {"default"} |-> "network name"]
    /\ Cardinality(Tracked(containers)) = 2
    /\ Len(calls) = 5

\* C14: up on a stack with a registered service that has no image (a
\* build-only service) fails with a NotSupported error.
C14_BuildOnlyNotSupported ==
    (last.op = "up" /\ WithImage(registered_services) # DOMAIN registered_services) =>
        ~last.ok /\ (last.failed = {} => last.err = "NotSupported")

OthersUnchanged(before, after, name) ==
    \A o \in StackNames \ {name} :
        /\ o \in DOMAIN after <=> o \in DOMAIN before
        /\ o \in DOMAIN before => after[o] = before[o]

\* C16: scale(service, m) on a registered service that tracks n > m
\* containers succeeds and leaves the first m IDs of the previous list, in the
\* same order; the containers stopped and removed are the last n - m, the
\* last one first, whether or not the stop and remove calls succeed.
C16_ScaleDownKeepsPrefix ==
    [][\A s \in DOMAIN registered_services :
        (last'.op = "scale" /\ last'.svc = s /\ TrackedCount(containers, s) > last'.n) =>
            LET n == TrackedCount(containers, s)
                m == last'.n
            IN /\ last'.ok
               /\ containers'[s] = SubSeq(containers[s], 1, m)
               /\ OthersUnchanged(containers, containers', s)
               /\ Len(calls') = 2 * (n - m)
               /\ \A i \in 1..(n - m) :
                    /\ calls'[2 * i - 1] = Call("stop", "", containers[s][n + 1 - i])
                    /\ calls'[2 * i] = Call("remove", "", containers[s][n + 1 - i])]_vars

C16_Witness ==
    /\ last.op = "scale"
    /\ last.ok
    /\ last.n = 1
    /\ last.failed = {"stop", "remove"}
    /\ calls = <<Call("stop", "", 2), Call("remove", "", 2)>>
    /\ containers[last.svc] = <<1>>

\* C17: a successful scale(service, target) with target above the current
\* count c creates exactly target - c containers, those of replica numbers
\* c+1 .. target in increasing order, starts each, appends their IDs in that
\* order after the IDs already tracked, and changes nothing else.
C17_ScaleUpAppends ==
    [][\A s \in StackNames :
        (last'.op = "scale" /\ last'.svc = s /\ last'.ok /\ last'.n > TrackedCount(containers, s)) =>
            LET c == TrackedCount(containers, s)
                target == last'.n
            IN /\ Len(calls') = 2 * (target - c)
               /\ \A i \in 1..(target - c) :
                    /\ calls'[2 * i - 1].id # 0
                    /\ calls'[2 * i - 1] = CreateCall(s, c + i, calls'[2 * i - 1].id)
                    /\ calls'[2 * i] = Call("start", s, calls'[2 * i - 1].id)
                    /\ calls'[2 * i - 1].id \notin Tracked(containers)
               /\ containers'[s] = TrackedIds(containers, s) \o [i \in 1..(target - c) |-> calls'[2 * i - 1].id]
               /\ OthersUnchanged(containers, containers', s)]_vars

C17_Witness ==
    /\ last.op = "scale"
    /\ last.ok
    /\ last.n = 2
    /\ calls = <<CreateCall(last.svc, 2, 2), Call("start", last.svc, 2)>>
    /\ containers[last.svc] = <<1, 2>>

\* C18: scale makes Runtime Client calls only when the status is Running or
\* PartiallyRunning; in any other status it makes none and leaves the tracked
\* containers as they were.
C18_ScaleOnlyWhenRunning ==
    [][(last'.op = "scale" /\ status \notin {"Running", "PartiallyRunning"}) =>
            calls' = <<>> /\ containers' = containers]_vars

\* C20: scale and restart_service given a name that is not registered return
\* an error, make no Runtime Client call and leave the runtime state and the
\* registered services as they were.
C20_UnknownServiceRejected ==
    [][(last'.op \in {"scale", "restart_service"} /\ last'.svc \notin DOMAIN registered_services) =>
            /\ ~last'.ok
            /\ calls' = <<>>
            /\ UNCHANGED <<containers, networks, status, next_id, registered_services>>]_vars

C20_Witness ==
    /\ last.op = "scale"
    /\ last.svc \notin DOMAIN registered_services
    /\ last.err = "ValueError"
    /\ last.n = 0
    /\ TrackedCount(containers, last.svc) = 1
    /\ status = "Running"

(***************************************************************************)
(* The definition-based Stack (stack.rs)                                   *)
(*                                                                         *)
(* A Stack made by Pyo3Stack::new and filled by add_service: its compose   *)
(* file defines no network and no volume, and every internal has an image.  *)
(***************************************************************************)

\* Pyo3Stack::new (stack.rs)
InitDefStack ==
    /\ services = <<>>
    /\ deployment_order = <<>>
    /\ scale_policies = <<>>
    /\ internal = NewService
    /\ last = Result("new", NoError)
    /\ StackIdle

\* The depends_on lists given to add_service here: at most MaxStackDeps names,
\* each of which may be a service that is not defined (yet).
StackDepLists == UNION {[1..n -> StackNames] : n \in 0..MaxStackDeps}

\* add_service (stack.rs), for the services named in StackNames: set_service,
\* then build_deployment_order, whose error is returned with the service set.
DefStackAddService ==
    \E name \in StackNames, deps \in StackDepLists :
        LET svcs == set_service(services, name, deps) IN
        \E seed \in SeedQueues(svcs) :
            LET r == build_deployment_order(svcs, deployment_order, seed) IN
            /\ services' = svcs
            /\ deployment_order' = r.order
            /\ last' = Result("add_service", r.err)
            /\ UNCHANGED <<scale_policies, internal, stackVars>>

\* get_scale_policy(name).map(|p| p.replicas).unwrap_or(1)
PolicyReplicas(policies, name) == IF name \in DOMAIN policies THEN policies[name] ELSE 1

\* The replica loop of deploy_single_service: creates and starts replica k+1,
\* .., replicas, collecting the IDs in a local list; returns at the first
\* call that fails. A single replica gets the name without a number (0).
RECURSIVE DeployReplicas(_, _, _, _, _, _, _)
DeployReplicas(s, k, replicas, ids, nid, log, fail) ==
    IF k >= replicas
    THEN [ids |-> ids, next_id |-> nid, calls |-> log, err |-> "none", failed |-> {}]
    ELSE LET create == CreateCall(s, IF replicas = 1 THEN 0 ELSE k + 1, nid) IN
         IF fail = Len(log) + 1
         THEN [ids |-> ids, next_id |-> nid,
               calls |-> Append(log, CreateCall(s, IF replicas = 1 THEN 0 ELSE k + 1, 0)),
               err |-> "RuntimeError", failed |-> {"create"}]
         ELSE IF fail = Len(log) + 2
         THEN [ids |-> ids, next_id |-> nid + 1, calls |-> log \o <<create, Call("start", s, nid)>>,
               err |-> "RuntimeError", failed |-> {"start"}]
         ELSE DeployReplicas(s, k + 1, replicas, Append(ids, nid), nid + 1,
                             log \o <<create, Call("start", s, nid)>>, fail)

\* deploy_services: deploy_single_service for each name of deployment_order,
\* in order; the IDs of a service are stored once all its replicas started.
RECURSIVE deploy_services(_, _, _, _, _, _, _)
deploy_services(order, svcs, policies, ctrs, nid, log, fail) ==
    IF order = <<>>
    THEN [containers |-> ctrs, next_id |-> nid, calls |-> log, err |-> "none", failed |-> {}]
    ELSE IF Head(order) \notin Defined(svcs)
    THEN [containers |-> ctrs, next_id |-> nid, calls |-> log, err |-> "Configuration", failed |-> {}]
    ELSE LET r == DeployReplicas(Head(order), 0, PolicyReplicas(policies, Head(order)), <<>>, nid, log, fail) IN
         IF r.err # "none"
         THEN [containers |-> ctrs, next_id |-> r.next_id, calls |-> r.calls, err |-> r.err, failed |-> r.failed]
         ELSE deploy_services(Tail(order), svcs, policies, Put(ctrs, Head(order), r.ids),
                              r.next_id, r.calls, fail)

\* The containers an up would create when no call fails.
RECURSIVE TotalReplicas(_, _)
TotalReplicas(order, policies) ==
    IF order = <<>> THEN 0 ELSE PolicyReplicas(policies, Head(order)) + TotalReplicas(Tail(order), policies)

\* up (stack.rs): status Deploying, then the services; Running on success.
DefStackUp ==
    /\ next_id + TotalReplicas(deployment_order, scale_policies) - 1 <= MaxIds
    /\ \E fail \in 0..(2 * TotalReplicas(deployment_order, scale_policies)) :
        LET r == deploy_services(deployment_order, services, scale_policies, containers, next_id, <<>>, fail) IN
        /\ containers' = r.containers
        /\ next_id' = r.next_id
        /\ calls' = r.calls
        /\ status' = IF r.err = "none" THEN "Running" ELSE "Deploying"
        /\ last' = StackResult("up", "", 0, r.err, r.failed)
        /\ UNCHANGED <<registered_services, networks, defVars>>

\* The calls of down (stack.rs): the containers of each service of
\* deployment_order, last service first.
RECURSIVE DefTeardownCalls(_, _)
DefTeardownCalls(order, ctrs) ==
    IF order = <<>> THEN <<>>
    ELSE DefTeardownCalls(Tail(order), ctrs)
         \o (IF Head(order) \in DOMAIN ctrs THEN StopRemove(ctrs[Head(order)]) ELSE <<>>)

\* down (stack.rs): every result is dropped and the state reset to default.
DefStackDown ==
    LET log == DefTeardownCalls(deployment_order, containers) IN
    \E failed \in SUBSET Kinds(log) :
        /\ containers' = <<>>
        /\ status' = "NotDeployed"
        /\ calls' = log
        /\ last' = StackResult("down", "", 0, "none", failed)
        /\ UNCHANGED <<registered_services, networks, next_id, defVars>>

\* scale (stack.rs): records the policy; applies it when the stack runs.
DefStackScale ==
    \E s \in StackNames, replicas \in 0..MaxReplicas :
        IF s \notin Defined(services)
        THEN /\ last' = StackResult("scale", s, replicas, "Configuration", {})
             /\ calls' = <<>>
             /\ UNCHANGED <<registered_services, containers, networks, status, next_id, defVars>>
        ELSE /\ scale_policies' = Put(scale_policies, s, replicas)
             /\ UNCHANGED <<services, deployment_order, internal, registered_services, networks, status>>
             /\ LET current == TrackedCount(containers, s) IN
                IF status \notin {"Running", "PartiallyRunning"} \/ replicas = current
                THEN /\ last' = StackResult("scale", s, replicas, "none", {})
                     /\ calls' = <<>>
                     /\ UNCHANGED <<containers, next_id>>
                ELSE IF replicas > current
                THEN /\ next_id + (replicas - current) - 1 <= MaxIds
                     /\ \E fail \in 0..(2 * (replicas - current)) :
                            LET r == ScaleUpLoop(s, current + 1, replicas, containers, next_id, <<>>, fail) IN
                            /\ containers' = r.containers
                            /\ next_id' = r.next_id
                            /\ calls' = r.calls
                            /\ last' = StackResult("scale", s, replicas, r.err, r.failed)
                ELSE LET log == StopRemove(Popped(containers[s], current - replicas)) IN
                     \E failed \in SUBSET Kinds(log) :
                        /\ containers' = Put(containers, s, SubSeq(containers[s], 1, replicas))
                        /\ calls' = log
                        /\ last' = StackResult("scale", s, replicas, "none", failed)
                        /\ UNCHANGED next_id

NextDefStack == DefStackAddService \/ DefStackScale \/ DefStackUp \/ DefStackDown

SpecDefStack == InitDefStack /\ [][NextDefStack]_vars

\* C19: in the definition-based Stack, scale(service, n) called while the
\* status is neither Running nor PartiallyRunning records n as the service's
\* replicas without any Runtime Client call, and an up that follows and
\* succeeds tracks exactly n containers for that service.
C19_ScalePolicyAppliedByUp ==
    [][/\ (last'.op = "scale" /\ last'.ok /\ status \notin {"Running", "PartiallyRunning"}) =>
            /\ PolicyReplicas(scale_policies', last'.svc) = last'.n
            /\ last'.svc \in DOMAIN scale_policies'
            /\ calls' = <<>>
            /\ containers' = containers
       /\ (/\ last.op = "scale" /\ last.ok /\ status \notin {"Running", "PartiallyRunning"}
           /\ last'.op = "up" /\ last'.ok) =>
            TrackedCount(containers', last.svc) = last.n]_vars

(***************************************************************************)
(* Further properties of the registration-based Stack (SpecStack)          *)
(***************************************************************************)

\* C21: scale(service, n), whether it succeeds or fails, leaves the tracked
\* containers of every other service, the tracked networks and the status
\* as they were.
C21_ScaleFrame ==
    [][last'.op = "scale" =>
            /\ OthersUnchanged(containers, containers', last'.svc)
            /\ networks' = networks
            /\ status' = status]_vars

C21_Witness ==
    /\ last.op = "scale"
    /\ last.failed = {"start"}
    /\ \E o \in StackNames \ {last.svc} : TrackedCount(containers, o) = 1
    /\ TrackedCount(containers, last.svc) = 0
    /\ networks # <<>>
    /\ status = "Running"

\* The positions in log of the calls of the given kinds.
CallsOf(log, kinds) == {i \in 1..Len(log) : log[i].call \in kinds}

\* C22: down tears the services down in reverse dependency order: when A
\* depends on B (on an acyclic registry whose names are all registered), every
\* stop and remove call for A's containers comes before every stop and remove
\* call for B's containers.
C22_DownReverseOrder ==
    [][(last'.op = "down" /\ RegClosed(registered_services) /\ ~RegHasCycle(registered_services)) =>
            \A e \in RegDependsOn(registered_services) :
                \A i, j \in CallsOf(calls', {"stop", "remove"}) :
                    (/\ calls'[i].id \in Range(TrackedIds(containers, e[1]))
                     /\ calls'[j].id \in Range(TrackedIds(containers, e[2]))) => i < j]_vars

\* C23: down issues, for every container tracked when it is called, a stop
\* call followed by a remove call, and all of these before the first network
\* delete call; it issues them all whichever of them fail.
C23_DownStopsAll ==
    [][last'.op = "down" =>
            /\ \A id \in Tracked(containers) :
                    \E i \in 1..(Len(calls') - 1) :
                        calls'[i] = Call("stop", "", id) /\ calls'[i + 1] = Call("remove", "", id)
            /\ Cardinality(CallsOf(calls', {"stop", "remove"})) = 2 * Cardinality(Tracked(containers))
            /\ \A i \in CallsOf(calls', {"stop", "remove"}), j \in CallsOf(calls', {"network_delete"}) : i < j
            /\ Cardinality(CallsOf(calls', {"network_delete"})) = Cardinality(DOMAIN networks) + 1]_vars

C23_Witness ==
    /\ last.op = "down"
    /\ last.failed = {"stop", "remove"}
    /\ calls = <<Call("stop", "", 2), Call("remove", "", 2), Call("stop", "", 1), Call("remove", "", 1),
                 Call("network_delete", "network id", 0), Call("network_delete", "network name", 0)>>

\* C24: up sets the status to Deploying before its first Runtime Client call
\* and keeps it so at every call it makes; the status becomes Running only
\* when up completes successfully.
C24_UpDeploying ==
    [][last'.op = "up" =>
            /\ StatusDuringUp(status) = "Deploying"
            /\ (status' = "Running" /\ status # "Running") => last'.ok]_vars

ServiceResult(op, before) == [op |-> op, ok |-> TRUE, before |-> before]

InitService ==
    /\ internal = NewService
    /\ services = <<>>
    /\ deployment_order = <<>>
    /\ scale_policies = <<>>
    /\ last = ServiceResult("new", NewService)
    /\ StackIdle

notService == <<services, deployment_order, scale_policies, stackVars>>

ServiceImage ==
    \E img \in Images :
        /\ internal' = Service_image(internal, img)
        /\ last' = ServiceResult("image", internal)
        /\ UNCHANGED notService

ServiceBuildContext ==
    \E context \in Contexts :
        /\ internal' = Service_build_context(internal, context)
        /\ last' = ServiceResult("build_context", internal)
        /\ UNCHANGED notService

ServiceBuildWithDockerfile ==
    \E context \in Contexts :
        /\ internal' = Service_build_with_dockerfile(internal, context, "Dockerfile.prod")
        /\ last' = ServiceResult("build_with_dockerfile", internal)
        /\ UNCHANGED notService

ServiceBuildArg ==
    \E value \in {"1", "2"} :
        /\ internal' = Service_build_arg(internal, "ENV", value)
        /\ last' = ServiceResult("build_arg", internal)
        /\ UNCHANGED notService

ServiceBuildTarget ==
    /\ internal' = Service_build_target(internal, "production")
    /\ last' = ServiceResult("build_target", internal)
    /\ UNCHANGED notService

ServiceBuildCacheFrom ==
    /\ internal.build # <<>> => Len(internal.build[1].cache_from) < MaxCacheFrom
    /\ internal' = Service_build_cache_from(internal, "cache")
    /\ last' = ServiceResult("build_cache_from", internal)
    /\ UNCHANGED notService

ServiceReplicas ==
    \E count \in 1..MaxReplicas :
        /\ internal' = Service_replicas(internal, count)
        /\ last' = ServiceResult("replicas", internal)
        /\ UNCHANGED notService

NextService ==
    \/ ServiceImage \/ ServiceBuildContext \/ ServiceBuildWithDockerfile
    \/ ServiceBuildArg \/ ServiceBuildTarget \/ ServiceBuildCacheFrom \/ ServiceReplicas

SpecService == InitService /\ [][NextService]_vars

\* C27: image(...) on a service that has a build configuration clears it, and
\* build_context(...) or build_with_dockerfile(...) on a service that has an
\* image clears the image.
C27_SettersClearTheOther ==
    /\ (last.op = "image" /\ last.before.build # <<>>) =>
            internal.build = <<>> /\ internal.image # <<>>
    /\ (last.op \in {"build_context", "build_with_dockerfile"} /\ last.before.image # <<>>) =>
            internal.image = <<>> /\ internal.build # <<>>

C27_Witness ==
    /\ last.op = "image"
    /\ last.before.build # <<>>
    /\ last.before.image = <<>>
    /\ internal.build = <<>>
    /\ internal.image = <<"nginx">>

\* C28: after any sequence of setters applied to a new Service, the service
\* never has both an image and a build configuration.
C28_NeverImageAndBuild == ~(internal.image # <<>> /\ internal.build # <<>>)

\* C29: register_service with a name that is already registered returns an
\* error and leaves the registry as it was (same names, same definitions);
\* with a new name it adds exactly that name.
C29_DuplicateRejected ==
    [][last'.op = "register_service" =>
            IF last'.svc \in DOMAIN registered_services
            THEN /\ ~last'.ok
                 /\ registered_services' = registered_services
            ELSE /\ last'.ok
                 /\ DOMAIN registered_services' = DOMAIN registered_services \cup {last'.svc}
                 /\ \A n \in DOMAIN registered_services : registered_services'[n] = registered_services[n]
                 /\ registered_services'[last'.svc].name = last'.svc]_vars

C29_Witness ==
    /\ last.op = "register_service"
    /\ ~last.ok
    /\ last.err = "ValueError"
    /\ last.svc \in DOMAIN registered_services
    /\ Cardinality(DOMAIN registered_services) = 2

\* C30: up on a stack that is Running after a successful up, with every
\* Runtime Client call succeeding, creates no container and leaves every
\* service tracking the IDs it tracked.
C30_UpIdempotent ==
    [][(last.op = "up" /\ last.ok /\ status = "Running" /\ last'.op = "up" /\ last'.failed = {}) =>
            Created(calls') = {} /\ containers' = containers]_vars

\* The IDs of the containers a call log created and started, in order; the
\* last start call is the one that failed when `failed` says so.
RECURSIVE StartedIds(_, _)
StartedIds(log, failed) ==
    IF log = <<>> THEN <<>>
    ELSE LET rest == StartedIds(SubSeq(log, 1, Len(log) - 1), {})
             c == log[Len(log)]
         IN IF c.call = "start" /\ "start" \notin failed THEN Append(rest, c.id) ELSE rest

\* C32: when a create or start call fails during a scale-up, scale returns the
\* error with the failed call as its last call (no create call after it), and
\* the service tracks its previous list followed, in order, by the IDs of the
\* replicas created and started before the failure; the other services'
\* lists are as they were.
C32_ScaleUpFailFast ==
    [][(last'.op = "scale" /\ last'.failed # {} /\ last'.n > TrackedCount(containers, last'.svc)) =>
            /\ ~last'.ok
            /\ calls' # <<>>
            /\ {calls'[Len(calls')].call} = last'.failed
            /\ last'.failed = {"create"} => calls'[Len(calls')].id = 0
            /\ \A i \in 1..(Len(calls') - 1) : calls'[i].call = "create" => calls'[i].id # 0
            /\ TrackedIds(containers', last'.svc) =
                   TrackedIds(containers, last'.svc) \o StartedIds(calls', last'.failed)
            /\ OthersUnchanged(containers, containers', last'.svc)]_vars

C32_Witness ==
    /\ last.op = "scale"
    /\ last.failed = {"start"}
    /\ last.n = 2
    /\ Len(calls) = 4
    /\ TrackedIds(containers, last.svc) = <<1>>

\* How many times name occurs in order.
Occurrences(order, name) == Cardinality({i \in 1..Len(order) : order[i] = name})

\* C33: when build_deployment_order succeeds, deployment_order holds every
\* defined service exactly once, and when a service is defined it holds
\* nothing else; a dependency listed twice by a service changes nothing.
C33_EveryServiceOnce ==
    [][(last'.op \in BuildOps /\ last'.ok) =>
            /\ \A n \in Defined(services') : Occurrences(deployment_order', n) = 1
            /\ services' # <<>> => Len(deployment_order') = Len(services')]_vars

C33_Witness ==
    /\ last.op = "build_deployment_order"
    /\ last.ok
    /\ \E i \in 1..Len(services) :
          /\ Len(services[i].depends_on) = 2
          /\ services[i].depends_on[1] = services[i].depends_on[2]
    /\ Len(deployment_order) = 2
    /\ Range(deployment_order) = Defined(services)

\* The length of the longest chain of dependencies of name (0 for a service
\* without depends_on), on an acyclic graph whose names are all defined.
RECURSIVE Level(_, _)
Level(svcs, name) ==
    LET deps == Range(get_service(svcs, name).depends_on)
    IN IF deps = {} THEN 0
       ELSE 1 + (CHOOSE m \in {Level(svcs, d) : d \in deps} : \A k \in {Level(svcs, d) : d \in deps} : k <= m)

\* C34: the deployment_order a successful build_deployment_order stores is
\* level-ordered: a service with a shorter longest chain of dependencies
\* comes before every service with a longer one, however the queue is seeded.
C34_LevelOrdered ==
    [][(last'.op \in BuildOps /\ last'.ok) =>
            \A a, b \in Defined(services') :
                Level(services', a) < Level(services', b) => Before(deployment_order', a, b)]_vars

C34_Witness ==
    /\ last.op = "build_deployment_order"
    /\ last.ok
    /\ Len(services) = 3
    /\ Len(deployment_order) = 3
    /\ Level(services, deployment_order[1]) = 0
    /\ Level(services, deployment_order[2]) = 0
    /\ Level(services, deployment_order[3]) = 1
    /\ deployment_order[2] \in Range(get_service(services, deployment_order[3]).depends_on)
    /\ deployment_order[1] \notin Range(get_service(services, deployment_order[3]).depends_on)

\* C35: in every reachable state of the Stack, status NotDeployed implies
\* that no container and no network is tracked.
C35_NotDeployedTracksNothing ==
    status = "NotDeployed" => Tracked(containers) = {} /\ DOMAIN networks = {}

\* The replicas values of a status result, summed over its services.
RECURSIVE ReplicasSum(_, _)
ReplicasSum(svcs, names) ==
    IF names = {} THEN 0
    ELSE LET n == CHOOSE x \in names : TRUE IN svcs[n].replicas + ReplicasSum(svcs, names \ {n})

\* C36: in every result of status, total_containers is the sum of the
\* replicas values reported for the services.
C36_TotalIsSumOfReplicas ==
    last.op = "status" =>
        last.result.total_containers = ReplicasSum(last.result.services, DOMAIN last.result.services)

\* C37: down on a stack that tracks no container and no network makes no
\* Runtime Client call.
C37_DownOnEmptyMakesNoCall ==
    [][(last'.op = "down" /\ containers = <<>> /\ networks = <<>>) => calls' = <<>>]_vars

(***************************************************************************)
(* The Stack of stack_impl.rs (SpecImpl): up with its round-based          *)
(* deploy_services, over the registry of mod.rs. The services carry no     *)
(* volumes, so create_volumes makes no call.                               *)
(***************************************************************************)

\* Service names of this model. Service::new takes any string as a name, a
\* comma included.
ImplNames == {"db", "web", "db,db"}

\* The depends_on lists of the services registered here.
ImplDepLists == UNION {[1..n -> ImplNames] : n \in 0..MaxStackDeps}

\* The services registered here: all of them have an image.
ImplServiceDefs == [name : ImplNames, image : {TRUE}, depends_on : ImplDepLists]

\* str::split(',') on one name: its comma-free parts.
SplitName(name) == IF name = "db,db" THEN <<"db", "db">> ELSE <<name>>

\* What deploy_services reads of depends_on: to_config_map joins the entries
\* with "," and deploy_services splits the joined string at every ",". An
\* empty depends_on gives no key, here no part.
RECURSIVE SplitJoined(_)
SplitJoined(deps) == IF deps = <<>> THEN <<>> ELSE SplitName(Head(deps)) \o SplitJoined(Tail(deps))

\* deps_satisfied: every part of the joined depends_on is in deployed.
deps_satisfied(sv, deployed) == \A i \in 1..Len(SplitJoined(sv.depends_on)) : SplitJoined(sv.depends_on)[i] \in Range(deployed)

\* The Runtime Client calls that can fail in deploy_single_service.
ImplCalls == <<"create", "network_connect", "start">>

\* The failures of one up: none, or the at-th deploy_single_service fails at
\* the call named.
ImplFailures == {[at |-> 0, call |-> "none"]} \cup [at : 1..(MaxIds + 1), call : Range(ImplCalls)]

\* deploy_single_service: a service without image is refused; otherwise the
\* container is created, connected to the default network, started and then
\* tracked, any failing call returning at once.
deploy_single_service(sv, st, fail) ==
    IF ~sv.image THEN [st EXCEPT !.err = "ValueError"]
    ELSE LET id == st.next_id
             log == <<CreateCall(sv.name, 1, id), Call("network_connect", sv.name, id), Call("start", sv.name, id)>>
         IN IF fail.at = Len(st.deployed) + 1
            THEN [st EXCEPT !.err = "RuntimeError",
                            !.failed = {fail.call},
                            !.calls = @ \o (IF fail.call = "create" THEN <<CreateCall(sv.name, 1, 0)>>
                                            ELSE SubSeq(log, 1, IndexOf(ImplCalls, fail.call))),
                            !.next_id = IF fail.call = "create" THEN @ ELSE @ + 1]
            ELSE [st EXCEPT !.calls = @ \o log,
                            !.next_id = @ + 1,
                            !.containers = Push(@, sv.name, id)]

\* One round: the for loop over to_deploy.
RECURSIVE ImplRound(_, _, _, _)
ImplRound(reg, to_deploy, st, fail) ==
    IF to_deploy = <<>> THEN st
    ELSE LET service_name == Head(to_deploy) IN
         IF deps_satisfied(reg[service_name], st.deployed)
         THEN LET d == deploy_single_service(reg[service_name], st, fail) IN
              IF d.err # "none" THEN d
              ELSE ImplRound(reg, Tail(to_deploy),
                             [d EXCEPT !.deployed = Append(@, service_name), !.made_progress = TRUE], fail)
         ELSE ImplRound(reg, Tail(to_deploy), [st EXCEPT !.next_round = Append(@, service_name)], fail)

\* deploy_services (stack_impl.rs): rounds over the services not yet
\* deployed, until none is left, a deployment fails or a round deploys
\* nothing. rounds records how many services each round deployed.
RECURSIVE impl_deploy_services(_, _, _, _)
impl_deploy_services(reg, to_deploy, st, fail) ==
    IF to_deploy = <<>> THEN st
    ELSE LET r == ImplRound(reg, to_deploy, [st EXCEPT !.made_progress = FALSE, !.next_round = <<>>], fail)
             done == [r EXCEPT !.rounds = Append(@, Len(r.deployed) - Len(st.deployed))]
         IN IF r.err # "none" THEN done
            ELSE IF ~r.made_progress /\ r.next_round # <<>> THEN [done EXCEPT !.err = "CircularDependency"]
            ELSE impl_deploy_services(reg, r.next_round, done, fail)

ImplResult(op, svc, st) ==
    [op |-> op, svc |-> svc, n |-> 0, ok |-> st.err = "none", err |-> st.err, failed |-> st.failed,
     deployed |-> st.deployed, rounds |-> st.rounds]

\* What an operation that deploys nothing returns.
ImplIdle(err, failed) == [err |-> err, failed |-> failed, deployed |-> <<>>, rounds |-> <<>>]

\* register_service (mod.rs) with the services of this model.
ImplRegisterService ==
    \E sv \in ImplServiceDefs :
        /\ registered_services' = register_service(registered_services, sv).registered
        /\ last' = ImplResult("register_service", sv.name, ImplIdle(register_service(registered_services, sv).err, {}))
        /\ calls' = <<>>
        /\ UNCHANGED <<containers, networks, status, next_id, defVars>>

\* unregister_service (mod.rs).
ImplUnregisterService ==
    \E name \in ImplNames :
        /\ registered_services' = Drop(registered_services, name)
        /\ last' = ImplResult("unregister_service", name, ImplIdle("none", {}))
        /\ calls' = <<>>
        /\ UNCHANGED <<containers, networks, status, next_id, defVars>>

\* up (stack_impl.rs): Deploying, create_networks, create_volumes,
\* deploy_services over the keys of registered_services in HashMap order,
\* then Running; an error returns with the status left at Deploying.
ImplUp ==
    \E net \in BOOLEAN :
        LET log == <<Call("network_create", "", 0)>> IN
        IF ~net
        THEN /\ status' = "Deploying"
             /\ calls' = log
             /\ last' = ImplResult("up", "", ImplIdle("RuntimeError", {"network_create"}))
             /\ UNCHANGED <<registered_services, containers, networks, next_id, defVars>>
        ELSE \E order \in Perms(DOMAIN registered_services), fail \in ImplFailures :
             LET st == [deployed |-> <<>>, next_round |-> <<>>, made_progress |-> FALSE, rounds |-> <<>>,
                        containers |-> containers, next_id |-> next_id, calls |-> log,
                        err |-> "none", failed |-> {}]
             IN \E r \in {impl_deploy_services(registered_services, order, st, fail)} :
                /\ r.next_id - 1 <= MaxIds
                /\ fail.at <= Len(r.deployed) + 1
                /\ networks' = Put(networks, "default", "network id")
                /\ containers' = r.containers
                /\ next_id' = r.next_id
                /\ calls' = r.calls
                /\ status' = IF r.err = "none" THEN "Running" ELSE "Deploying"
                /\ last' = ImplResult("up", "", r)
                /\ UNCHANGED <<registered_services, defVars>>

NextImpl == ImplRegisterService \/ ImplUnregisterService \/ ImplUp

SpecImpl == InitStack /\ [][NextImpl]_vars

\* Every round of the last up deployed a service, or was the last one and
\* ended in an error; there are no more rounds than services, plus one.
ImplRoundsProgress ==
    last.op = "up" =>
        /\ \A i \in 1..Len(last.rounds) : last.rounds[i] >= 1 \/ (i = Len(last.rounds) /\ ~last.ok)
        /\ Len(last.rounds) <= Cardinality(DOMAIN registered_services) + 1

\* Every service the last up deployed was deployed after all the services
\* its depends_on names.
ImplDependenciesFirst ==
    last.op = "up" =>
        \A i \in 1..Len(last.deployed) :
            \A j \in 1..Len(registered_services[last.deployed[i]].depends_on) :
                Before(last.deployed, registered_services[last.deployed[i]].depends_on[j], last.deployed[i])

\* C38: deploy_services terminates on every registry and depends_on graph
\* (each round deploys a service or ends the loop with an error), and it
\* deploys a service only after all the services it depends on.
C38_RoundsTerminateInOrder == ImplRoundsProgress /\ ImplDependenciesFirst

====
